---- MODULE Spec2Model ----
(***************************************************************************)
(* A model of basketball_calendar: the text normalizer and the venue       *)
(* resolver of src/src/create_calendar.py, the calendar builder of the     *)
(* same file, and the table extractor of src/src/extract_necessary_data.py.*)
(*                                                                         *)
(* Strings are sequences of one-character strings.  The accented letters   *)
(* are written with ASCII names: "ea" is e-acute, "EA" is its capital and *)
(* "eg" is e-grave.                                                        *)
(***************************************************************************)
EXTENDS Integers, Sequences, FiniteSets, TLC

VARIABLES
    text, once, twice, npc,                      \* normalize applied twice
    terrain, addresses_dict, found, rpc,         \* find_address_for_terrain
    column_mapping, row, outcome, extracted, src, nrows, csv_rows, epc,  \* load_html
    row_cols, row_fields, row_radios, row_checkboxes,  \* load_html, the current row
    calendar, matches, uid, cpc,                 \* create_calendar
    arg_a, arg_b, score_ab, score_ba, score_aa, opc    \* overlap_score

varsN == <<text, once, twice, npc>>
varsR == <<terrain, addresses_dict, found, rpc>>
varsE == <<column_mapping, row, outcome, extracted, src, nrows, csv_rows, epc,
           row_cols, row_fields, row_radios, row_checkboxes>>
varsC == <<calendar, matches, uid, cpc>>
varsO == <<arg_a, arg_b, score_ab, score_ba, score_aa, opc>>
vars == <<varsN, varsR, varsE, varsC, varsO>>

(***************************************************************************)
(* Characters: the classes the regular expressions of the source use.      *)
(***************************************************************************)
LowerLetters ==
    {"a","b","c","d","e","f","g","h","i","j","k","l","m",
     "n","o","p","q","r","s","t","u","v","w","x","y","z"}
Digits == {"0","1","2","3","4","5","6","7","8","9"}
UpperSeq == <<"A","B","C","D","E","F","G","H","I","J","K","L","M",
              "N","O","P","Q","R","S","T","U","V","W","X","Y","Z","EA">>
LowerSeq == <<"a","b","c","d","e","f","g","h","i","j","k","l","m",
              "n","o","p","q","r","s","t","u","v","w","x","y","z","ea">>
UpperLetters == {UpperSeq[i] : i \in 1..Len(UpperSeq)}
AccentedLower == {"ea", "eg"}

LowerOf ==
    [c \in UpperLetters |-> LowerSeq[CHOOSE i \in 1..Len(UpperSeq) : UpperSeq[i] = c]]

\* str.lower() on one character
Lower(c) == IF c \in UpperLetters THEN LowerOf[c] ELSE c

WordChars == LowerLetters \cup UpperLetters \cup AccentedLower \cup Digits \cup {"_"}

\* \w of the re module: letters (accented ones included), digits, underscore
IsWord(c) == c \in WordChars

\* \s of the re module
IsSpace(c) == c \in {" ", "\t", "\n"}

\* unicodedata.normalize(NFD, c) with the combining marks (category Mn) dropped
StripAccent(c) ==
    CASE c \in {"ea", "eg"} -> "e"
      [] c = "EA" -> "E"
      [] OTHER -> c

\* \b between text[p-1] and text[p] (p in 1..Len(text)+1)
Boundary(s, p) ==
    LET before == p > 1 /\ IsWord(s[p - 1])
        after == p <= Len(s) /\ IsWord(s[p])
    IN before # after

(***************************************************************************)
(* A regular expression is a sequence of elements: a word boundary, one    *)
(* character of a set, an optional character (greedy ?), a greedy run of   *)
(* any length (the star; a plus is one character and then a star).  Sets   *)
(* hold lower-case characters: every pattern is used with re.IGNORECASE.   *)
(***************************************************************************)
B == [kind |-> "b", set |-> {}]
Ch(c) == [kind |-> "c", set |-> {c}]
OneOf(S) == [kind |-> "c", set |-> S]
Opt(c) == [kind |-> "opt", set |-> {c}]
Star(S) == [kind |-> "star", set |-> S]
Lit(s) == [i \in 1..Len(s) |-> Ch(Lower(s[i]))]
SpaceSet == {" ", "\t", "\n"}

RECURSIVE MatchEnd(_, _, _, _)
\* The position after the match of pat[k..] at s[p..], or 0 when there is none;
\* alternatives are tried in the order of a backtracking matcher (greedy first).
MatchEnd(pat, k, s, p) ==
    IF k > Len(pat) THEN p
    ELSE LET e == pat[k]
             hit == p <= Len(s) /\ Lower(s[p]) \in e.set
         IN CASE e.kind = "b" -> IF Boundary(s, p) THEN MatchEnd(pat, k + 1, s, p) ELSE 0
              [] e.kind = "c" -> IF hit THEN MatchEnd(pat, k + 1, s, p + 1) ELSE 0
              [] e.kind = "opt" ->
                    LET with == IF hit THEN MatchEnd(pat, k + 1, s, p + 1) ELSE 0
                    IN IF with # 0 THEN with ELSE MatchEnd(pat, k + 1, s, p)
              [] e.kind = "star" ->
                    LET more == IF hit THEN MatchEnd(pat, k, s, p + 1) ELSE 0
                    IN IF more # 0 THEN more ELSE MatchEnd(pat, k + 1, s, p)

RECURSIVE SubFrom(_, _, _, _)
\* re.sub(pat, repl, s): leftmost non-overlapping matches, scanning from p
SubFrom(pat, repl, s, p) ==
    IF p > Len(s) THEN <<>>
    ELSE LET e == MatchEnd(pat, 1, s, p)
         IN IF e > p THEN repl \o SubFrom(pat, repl, s, e)
            ELSE <<s[p]>> \o SubFrom(pat, repl, s, p + 1)

re_sub(pat, repl, s) == SubFrom(pat, repl, s, 1)

(***************************************************************************)
(* ABBREVIATIONS and SPECIAL_CASES, in the order of the source.            *)
(***************************************************************************)
EAcute == "ea"
EGrave == "eg"

\* ABBREVIATIONS without the rule for st
ABBREVIATIONS_NoSaint == <<
    [pat |-> <<B, Ch("s"), OneOf({"e", EAcute}), Ch("m"), Opt("."), B>>,
     repl |-> <<"s", EAcute, "m", "i", "n", "a", "i", "r", "e">>],
    [pat |-> <<B, Ch("s"), Ch("t"), Ch("e"), Opt("."), B>>,
     repl |-> <<"s", "a", "i", "n", "t", "e">>],
    [pat |-> <<B, Ch("c"), Ch("o"), Ch("l"), Ch("l"), Opt("."), B>>,
     repl |-> <<"c", "o", "l", "l", EGrave, "g", "e">>],
    [pat |-> <<B, Ch("l"), Ch("e"), B>>, repl |-> <<"l", "e">>],
    [pat |-> <<B, Ch("l"), Ch("a"), B>>, repl |-> <<"l", "a">>],
    [pat |-> <<B, Ch("c"), Ch("f"), Ch("p"), B>>,
     repl |-> <<"C","e","n","t","r","e"," ","d","e"," ",
                "f","o","r","m","a","t","i","o","n"," ",
                "p","r","o","f","e","s","s","i","o","n","n","e","l">>]
    >>

ABBREVIATIONS == <<
    [pat |-> <<B, Ch("s"), OneOf({"e", EAcute}), Ch("m"), Opt("."), B>>,
     repl |-> <<"s", EAcute, "m", "i", "n", "a", "i", "r", "e">>],
    [pat |-> <<B, Ch("s"), Ch("t"), Opt("."), B>>,
     repl |-> <<"s", "a", "i", "n", "t">>],
    [pat |-> <<B, Ch("s"), Ch("t"), Ch("e"), Opt("."), B>>,
     repl |-> <<"s", "a", "i", "n", "t", "e">>],
    [pat |-> <<B, Ch("c"), Ch("o"), Ch("l"), Ch("l"), Opt("."), B>>,
     repl |-> <<"c", "o", "l", "l", EGrave, "g", "e">>],
    [pat |-> <<B, Ch("l"), Ch("e"), B>>, repl |-> <<"l", "e">>],
    [pat |-> <<B, Ch("l"), Ch("a"), B>>, repl |-> <<"l", "a">>],
    [pat |-> <<B, Ch("c"), Ch("f"), Ch("p"), B>>,
     repl |-> <<"C","e","n","t","r","e"," ","d","e"," ",
                "f","o","r","m","a","t","i","o","n"," ",
                "p","r","o","f","e","s","s","i","o","n","n","e","l">>]
    >>

SPECIAL_CASES == <<
    [pat |-> <<B, Ch("l"), Ch("e"), OneOf(SpaceSet), Star(SpaceSet), Ch("m"), Ch("a"), Ch("y"), B>>,
     repl |-> <<"L", "e", "m", "a", "y">>],
    [pat |-> <<B, Ch("l"), Ch("."), Opt("-"), Ch("j"), Opt("."), Opt("."), Star(SpaceSet)>>
              \o Lit(<<"C","a","s","a","u","l","t">>) \o <<B>>,
     repl |-> <<"L","o","u","i","s","-","J","a","c","q","u","e","s"," ",
                "C","a","s","a","u","l","t">>]
    >>

RECURSIVE ApplyAll(_, _, _)
\* for pattern, replacement in table: s = re.sub(pattern, replacement, s)
ApplyAll(table, k, s) ==
    IF k > Len(table) THEN s
    ELSE ApplyAll(table, k + 1, re_sub(table[k].pat, table[k].repl, s))

expand_abbreviations(s) == ApplyAll(ABBREVIATIONS, 1, s)

RECURSIVE RemoveParens(_, _)
\* The removal of parenthesized text, a lazy match: from each opening
\* parenthesis to the nearest closing one, when no line break lies between.
RemoveParens(s, p) ==
    IF p > Len(s) THEN <<>>
    ELSE IF s[p] = "("
            /\ \E q \in p + 1..Len(s) :
                    s[q] = ")" /\ \A j \in p + 1..q - 1 : s[j] \notin {")", "\n"}
         THEN LET q == CHOOSE q \in p + 1..Len(s) :
                          /\ s[q] = ")"
                          /\ \A j \in p + 1..q - 1 : s[j] # ")"
              IN RemoveParens(s, q + 1)
         ELSE <<s[p]>> \o RemoveParens(s, p + 1)

RECURSIVE CollapseSpaces(_, _)
\* re.sub(r"\s+", " ", s)
CollapseSpaces(s, p) ==
    IF p > Len(s) THEN <<>>
    ELSE IF IsSpace(s[p])
         THEN IF p > 1 /\ IsSpace(s[p - 1]) THEN CollapseSpaces(s, p + 1)
              ELSE <<" ">> \o CollapseSpaces(s, p + 1)
         ELSE <<s[p]>> \o CollapseSpaces(s, p + 1)

\* str.strip() after the collapse: at most one blank at each end
Strip(s) ==
    LET a == IF Len(s) > 0 /\ IsSpace(s[1]) THEN 2 ELSE 1
        b == IF Len(s) > 0 /\ IsSpace(s[Len(s)]) THEN Len(s) - 1 ELSE Len(s)
    IN IF a > b THEN <<>> ELSE SubSeq(s, a, b)

\* the accents removed: NFD, then the characters of category Mn dropped
StripAccents(s) == [i \in 1..Len(s) |-> StripAccent(s[i])]

\* text.lower()
LowerAll(s) == [i \in 1..Len(s) |-> Lower(s[i])]

\* the punctuation replaced by blanks: every character that is neither \w nor \s
RemovePunctuation(s) ==
    [i \in 1..Len(s) |-> IF IsWord(s[i]) \/ IsSpace(s[i]) THEN s[i] ELSE " "]

normalize(t) ==
    IF t = <<>> THEN <<>>
    ELSE Strip(CollapseSpaces(RemovePunctuation(RemoveParens(LowerAll(StripAccents(
            ApplyAll(SPECIAL_CASES, 1, expand_abbreviations(t)))), 1)), 1))

(***************************************************************************)
(* overlap_score and find_address_for_terrain.  A score is a fraction      *)
(* <<numerator, denominator>>; fractions are compared exactly, which is    *)
(* how the floats of the source compare for token counts this small.       *)
(***************************************************************************)
None == <<"None">>

RECURSIVE Split(_, _, _)
\* str.split(): the maximal runs of non-blank characters, as a set (set(a.split()))
Split(s, p, word) ==
    IF p > Len(s) THEN (IF word = <<>> THEN {} ELSE {word})
    ELSE IF IsSpace(s[p])
         THEN (IF word = <<>> THEN {} ELSE {word}) \cup Split(s, p + 1, <<>>)
         ELSE Split(s, p + 1, Append(word, s[p]))

Max(a, b) == IF a >= b THEN a ELSE b

\* overlap_score dividing by the number of words of its first argument
overlap_score_OverFirst(a, b) ==
    LET set_a == Split(a, 1, <<>>)
        set_b == Split(b, 1, <<>>)
    IN IF set_a = {} \/ set_b = {} THEN <<0, 1>>
       ELSE <<Cardinality(set_a \cap set_b), Cardinality(set_a)>>

overlap_score(a, b) ==
    LET set_a == Split(a, 1, <<>>)
        set_b == Split(b, 1, <<>>)
    IN IF set_a = {} \/ set_b = {} THEN <<0, 1>>
       ELSE <<Cardinality(set_a \cap set_b), Max(Cardinality(set_a), Cardinality(set_b))>>

\* x > y for fractions with positive denominators
Greater(x, y) == x[1] * y[2] > y[1] * x[2]

\* the acceptance threshold 0.45
Threshold == <<45, 100>>

\* a in b, for strings
IsSubstring(a, b) ==
    \E i \in 0..Len(b) - Len(a) : \A j \in 1..Len(a) : b[i + j] = a[j]

Entry(r) == <<r.address, r.map_link>>

RECURSIVE ScanCandidates_BestScoreWins(_, _, _, _, _)
\* ScanCandidates without the substring shortcut: every candidate is scored
ScanCandidates_BestScoreWins(norm_terrain, dict, k, best_score, best_entry) ==
    IF k > Len(dict)
    THEN IF Greater(best_score, Threshold) THEN Entry(best_entry) ELSE <<None, None>>
    ELSE LET score == overlap_score(norm_terrain, normalize(dict[k].school_name))
         IN IF Greater(score, best_score)
            THEN ScanCandidates_BestScoreWins(norm_terrain, dict, k + 1, score, dict[k].row)
            ELSE ScanCandidates_BestScoreWins(norm_terrain, dict, k + 1, best_score, best_entry)

RECURSIVE ScanCandidates_AtLeast(_, _, _, _, _)
\* ScanCandidates accepting a best score equal to the threshold
ScanCandidates_AtLeast(norm_terrain, dict, k, best_score, best_entry) ==
    IF k > Len(dict)
    THEN IF ~Greater(Threshold, best_score) THEN Entry(best_entry) ELSE <<None, None>>
    ELSE LET norm_school == normalize(dict[k].school_name)
             score == overlap_score(norm_terrain, norm_school)
         IN IF IsSubstring(norm_terrain, norm_school) \/ IsSubstring(norm_school, norm_terrain)
            THEN Entry(dict[k].row)
            ELSE IF Greater(score, best_score)
                 THEN ScanCandidates_AtLeast(norm_terrain, dict, k + 1, score, dict[k].row)
                 ELSE ScanCandidates_AtLeast(norm_terrain, dict, k + 1, best_score, best_entry)

RECURSIVE ScanCandidates(_, _, _, _, _)
\* The loop over addresses_dict.items() from candidate k on, and the
\* threshold test that follows it.
ScanCandidates(norm_terrain, dict, k, best_score, best_entry) ==
    IF k > Len(dict)
    THEN IF Greater(best_score, Threshold) THEN Entry(best_entry) ELSE <<None, None>>
    ELSE LET norm_school == normalize(dict[k].school_name)
             score == overlap_score(norm_terrain, norm_school)
         IN IF IsSubstring(norm_terrain, norm_school) \/ IsSubstring(norm_school, norm_terrain)
            THEN Entry(dict[k].row)
            ELSE IF Greater(score, best_score)
                 THEN ScanCandidates(norm_terrain, dict, k + 1, score, dict[k].row)
                 ELSE ScanCandidates(norm_terrain, dict, k + 1, best_score, best_entry)

\* find_address_for_terrain testing the normalized text for emptiness
find_address_for_terrain_NormalizedEmpty(t, dict) ==
    IF normalize(t) = <<>> THEN <<None, None>>
    ELSE ScanCandidates(normalize(t), dict, 1, <<0, 1>>, None)

find_address_for_terrain(t, dict) ==
    IF t = <<>> THEN <<None, None>>
    ELSE ScanCandidates(normalize(t), dict, 1, <<0, 1>>, None)

(***************************************************************************)
(* load_html.  A row is a sequence of cells; a cell has its visible text,  *)
(* the target of its first link (NoLink without one) and the input         *)
(* elements it holds.  An input has a type, a name and a value (the empty  *)
(* name and NoValue when the attribute is missing) and a checked flag.     *)
(* The accented field names and values are written without accents:        *)
(* "Accepte/Refuse", "Accepte", "Refuse", "Numero", "Prenom", "Telephone". *)
(***************************************************************************)
NoLink == "<no link>"
NoValue == "<no value>"

COLUMN_MAP_ASSIGNATIONS == <<
    [name |-> "#", idx |-> 0], [name |-> "Ligue", idx |-> 1],
    [name |-> "Calibre", idx |-> 2], [name |-> "Jour", idx |-> 4],
    [name |-> "Date", idx |-> 5], [name |-> "Heure", idx |-> 6],
    [name |-> "Equipes", idx |-> 7], [name |-> "Terrain", idx |-> 8],
    [name |-> "Autre arbitre", idx |-> 9], [name |-> "Accepte/Refuse", idx |-> 10],
    [name |-> "Match fait", idx |-> 11]>>

COLUMN_MAP_ADDRESSES == <<
    [name |-> "School Name", idx |-> 0], [name |-> "Address", idx |-> 1],
    [name |-> "Map Link", idx |-> 2]>>

COLUMN_MAP_REFEREE == <<
    [name |-> "Numero", idx |-> 0], [name |-> "Nom", idx |-> 1],
    [name |-> "Prenom", idx |-> 2], [name |-> "Ville", idx |-> 3],
    [name |-> "Telephone 1", idx |-> 4], [name |-> "Telephone 2", idx |-> 5],
    [name |-> "Courriel", idx |-> 6]>>

\* "lien" in col_name.lower() or "link" in col_name.lower(), over the column
\* names of the three mappings
IsLinkField(col_name) == col_name \in {"Map Link"}

\* tag.decompose() of every input of a copy of the cell
Decompose(td_copy) == [td_copy EXCEPT !.inputs = <<>>]

\* cols[idx] raises IndexError past the last cell; the handler returns ""
\* (idx is zero-based)
_td_text_safe(cols, idx) ==
    IF idx + 1 > Len(cols) THEN ""
    ELSE Decompose(cols[idx + 1]).text

_td_link_safe(cols, idx) ==
    IF idx + 1 > Len(cols) THEN ""
    ELSE IF cols[idx + 1].href = NoLink THEN "" ELSE cols[idx + 1].href

\* row_data[k] = v on an insertion-ordered dict: a present key keeps its place
SetItem(d, k, v) ==
    IF \E i \in 1..Len(d) : d[i].k = k
    THEN [i \in 1..Len(d) |-> IF d[i].k = k THEN [k |-> k, v |-> v] ELSE d[i]]
    ELSE Append(d, [k |-> k, v |-> v])

HasKey(d, k) == \E i \in 1..Len(d) : d[i].k = k
\* row.get(h, "")
Get(d, k) == IF HasKey(d, k) THEN d[CHOOSE i \in 1..Len(d) : d[i].k = k].v ELSE ""

RECURSIVE BuildRowData_SkipMissing(_, _, _, _)
\* BuildRowData leaving out a field whose cell the row does not have
BuildRowData_SkipMissing(mapping, cols, i, row_data) ==
    IF i > Len(mapping) THEN row_data
    ELSE IF mapping[i].idx + 1 > Len(cols)
         THEN BuildRowData_SkipMissing(mapping, cols, i + 1, row_data)
         ELSE LET col_name == mapping[i].name
                  v == IF IsLinkField(col_name) THEN _td_link_safe(cols, mapping[i].idx)
                       ELSE _td_text_safe(cols, mapping[i].idx)
              IN BuildRowData_SkipMissing(mapping, cols, i + 1, SetItem(row_data, col_name, v))

RECURSIVE BuildRowData(_, _, _, _)
\* for col_name, idx in column_mapping.items(): row_data[col_name] = ...
BuildRowData(mapping, cols, i, row_data) ==
    IF i > Len(mapping) THEN row_data
    ELSE LET col_name == mapping[i].name
             v == IF IsLinkField(col_name) THEN _td_link_safe(cols, mapping[i].idx)
                  ELSE _td_text_safe(cols, mapping[i].idx)
         IN BuildRowData(mapping, cols, i + 1, SetItem(row_data, col_name, v))

\* ColsAfterText decomposing the inputs in the cell of the row itself
ColsAfterText_InPlace(cols, idx) ==
    IF idx + 1 > Len(cols) THEN cols
    ELSE [cols EXCEPT ![idx + 1] = Decompose(cols[idx + 1])]

\* The cells of the row once _td_text_safe(cols, idx) has run: the inputs are
\* decomposed in td_copy, which td.__copy__() made with copies of the
\* children of the cell, so the cells of the row are as they were.
ColsAfterText(cols, idx) == cols

RECURSIVE ColsAfterBuild(_, _, _)
\* the cells of the row once every field of the mapping has been extracted
\* (_td_link_safe only reads the cell)
ColsAfterBuild(mapping, cols, i) ==
    IF i > Len(mapping) THEN cols
    ELSE ColsAfterBuild(mapping,
            IF IsLinkField(mapping[i].name) THEN cols ELSE ColsAfterText(cols, mapping[i].idx),
            i + 1)

RECURSIVE Flatten(_, _)
\* the input elements of the row, in document order
Flatten(cols, i) ==
    IF i > Len(cols) THEN <<>> ELSE cols[i].inputs \o Flatten(cols, i + 1)

\* row.find_all('input', {'type': t})
FindInputs(r, t) == SelectSeq(Flatten(r.cells, 1), LAMBDA c : c.type = t)

MarkAccepted == <<"i","s","g","a","m","e","a","c","c","e","p","t","e","d">>
MarkDone == <<"i","s","g","a","m","e","d","o","n","e">>
MarkDoneAlone == <<"i","s","g","a","m","e","d","o","n","e","a","l","o","n","e">>

RECURSIVE DecodeRadios_AnyGroup(_, _, _)
\* DecodeRadios taking the checked radio button of any group
DecodeRadios_AnyGroup(radio_buttons, i, row_data) ==
    IF i > Len(radio_buttons) THEN row_data
    ELSE LET radio == radio_buttons[i]
             next ==
                IF radio.checked
                THEN IF radio.value = "1" THEN SetItem(row_data, "Accepte/Refuse", "Accepte")
                     ELSE IF radio.value = "2" THEN SetItem(row_data, "Accepte/Refuse", "Refuse")
                     ELSE row_data
                ELSE row_data
         IN DecodeRadios_AnyGroup(radio_buttons, i + 1, next)

RECURSIVE DecodeRadios(_, _, _)
\* the loop over radio_buttons
DecodeRadios(radio_buttons, i, row_data) ==
    IF i > Len(radio_buttons) THEN row_data
    ELSE LET radio == radio_buttons[i]
             next ==
                IF IsSubstring(MarkAccepted, radio.name) /\ radio.checked
                THEN IF radio.value = "1" THEN SetItem(row_data, "Accepte/Refuse", "Accepte")
                     ELSE IF radio.value = "2" THEN SetItem(row_data, "Accepte/Refuse", "Refuse")
                     ELSE row_data
                ELSE row_data
         IN DecodeRadios(radio_buttons, i + 1, next)

RECURSIVE DecodeCheckboxes(_, _, _, _)
\* the loop over checkboxes; match_done starts as "no"
DecodeCheckboxes(checkboxes, i, match_done, row_data) ==
    IF i > Len(checkboxes) THEN row_data
    ELSE LET checkbox == checkboxes[i]
             done ==
                IF /\ IsSubstring(MarkDone, checkbox.name)
                   /\ ~IsSubstring(MarkDoneAlone, checkbox.name)
                   /\ checkbox.checked
                THEN "yes" ELSE match_done
         IN DecodeCheckboxes(checkboxes, i + 1, done, SetItem(row_data, "Match fait", done))

\* HasControls taking every row with cells for a row with controls
HasControls_AnyCell(r) == r.cells # <<>>

\* if radio_buttons or checkboxes
HasControls(r) == \E i \in 1..Len(r.cells) : \E j \in 1..Len(r.cells[i].inputs) :
    r.cells[i].inputs[j].type \in {"radio", "checkbox"}

\* row_data after the column extraction and the decoding of the controls
Decoded(mapping, r) ==
    LET row_data == BuildRowData(mapping, r.cells, 1, <<>>)
        after_radios == DecodeRadios(FindInputs(r, "radio"), 1, row_data)
    IN DecodeCheckboxes(FindInputs(r, "checkbox"), 1, "no", after_radios)

\* list(row_data.values())[9] or [10] raises IndexError on a shorter dict
FilterRaises(row_data) == Len(row_data) < 11

\* FilterPasses without the test of match_completed
FilterPasses_AcceptedOnly(row_data) == row_data[10].v = "Accepte"

\* The filter: match_accepted_or_refused is "Accepte" and match_completed is "no"
FilterPasses(row_data) == row_data[10].v = "Accepte" /\ row_data[11].v = "no"

\* Emit putting the record in front of the list
Emit_AtFront(list, row_data) == <<row_data>> \o list

\* extracted.append(row_data)
Emit(list, row_data) == Append(list, row_data)

\* the rows written to the CSV file: row.get(h, "") for h in headers
CsvRows(list, mapping) ==
    [i \in 1..Len(list) |-> [h \in 1..Len(mapping) |-> Get(list[i], mapping[h].name)]]

(***************************************************************************)
(* parse_datetime and the date arithmetic of create_calendar.  A date or   *)
(* time text is a sequence of tokens: a run of w digits of value v, or one *)
(* other character c.  A format is a sequence of directives (Y, m, d, H,   *)
(* M) and literal characters.                                              *)
(***************************************************************************)
Num(w, v) == [kind |-> "num", w |-> w, v |-> v, c |-> ""]
Sep(c) == [kind |-> "sep", w |-> 0, v |-> 0, c |-> c]
Dir(c) == [kind |-> "dir", w |-> 0, v |-> 0, c |-> c]

DateTimeFormat(a, s1, b, s2, c) ==
    <<Dir(a), Sep(s1), Dir(b), Sep(s2), Dir(c), Sep(" "), Dir("H"), Sep(":"), Dir("M")>>

possible_formats == <<
    DateTimeFormat("Y", "-", "m", "-", "d"),
    DateTimeFormat("d", "/", "m", "/", "Y"),
    DateTimeFormat("d", "-", "m", "-", "Y"),
    DateTimeFormat("Y", "/", "m", "/", "d"),
    DateTimeFormat("d", ".", "m", ".", "Y")>>

IsLeap(y) == (y % 4 = 0 /\ y % 100 # 0) \/ y % 400 = 0

DaysInMonth(y, m) ==
    IF m = 2 THEN (IF IsLeap(y) THEN 29 ELSE 28)
    ELSE IF m \in {4, 6, 9, 11} THEN 30 ELSE 31

\* one token against one element of a format, as the regular expressions of
\* strptime take it
TokenMatches(t, f) ==
    IF f.kind = "sep" THEN t.kind = "sep" /\ t.c = f.c
    ELSE /\ t.kind = "num"
         /\ CASE f.c = "Y" -> t.w = 4
              [] f.c = "m" -> t.w \in {1, 2} /\ t.v \in 1..12
              [] f.c = "d" -> t.w \in {1, 2} /\ t.v \in 1..31
              [] f.c = "H" -> t.w \in {1, 2} /\ t.v \in 0..23
              [] f.c = "M" -> t.w \in {1, 2} /\ t.v \in 0..59

\* the value of directive c in a text that matches the format
Field(s, fmt, c) == s[CHOOSE i \in 1..Len(fmt) : fmt[i].kind = "dir" /\ fmt[i].c = c].v

\* datetime.strptime(s, fmt) returns a datetime (TRUE) or raises ValueError
Strptime(s, fmt) ==
    /\ Len(s) = Len(fmt)
    /\ \A i \in 1..Len(s) : TokenMatches(s[i], fmt[i])
    /\ Field(s, fmt, "Y") >= 1
    /\ Field(s, fmt, "d") <= DaysInMonth(Field(s, fmt, "Y"), Field(s, fmt, "m"))

DateTime(s, fmt) ==
    [year |-> Field(s, fmt, "Y"), month |-> Field(s, fmt, "m"), day |-> Field(s, fmt, "d"),
     hour |-> Field(s, fmt, "H"), minute |-> Field(s, fmt, "M"), tzinfo |-> "<naive>"]

RECURSIVE TryFormats(_, _)
\* the loop over possible_formats; ValueError after the last one
TryFormats(s, i) ==
    IF i > Len(possible_formats) THEN [ok |-> FALSE, dt |-> None]
    ELSE IF Strptime(s, possible_formats[i])
         THEN [ok |-> TRUE, dt |-> DateTime(s, possible_formats[i])]
         ELSE TryFormats(s, i + 1)

parse_datetime(date_str, time_str) == TryFormats(date_str \o <<Sep(" ")>> \o time_str, 1)

\* the day after a date
NextDay(dt) ==
    IF dt.day < DaysInMonth(dt.year, dt.month) THEN [dt EXCEPT !.day = dt.day + 1]
    ELSE IF dt.month < 12 THEN [dt EXCEPT !.day = 1, !.month = dt.month + 1]
    ELSE [dt EXCEPT !.day = 1, !.month = 1, !.year = dt.year + 1]

RECURSIVE AddDays(_, _)
AddDays(dt, n) == IF n = 0 THEN dt ELSE AddDays(NextDay(dt), n - 1)

\* PlusMinutes keeping the date
PlusMinutes_SameDay(dt, n) ==
    [dt EXCEPT !.hour = ((dt.hour * 60 + dt.minute + n) % 1440) \div 60,
               !.minute = (dt.hour * 60 + dt.minute + n) % 60]

\* dt + timedelta(minutes=n): wall-clock arithmetic, the time zone kept
PlusMinutes(dt, n) ==
    LET total == dt.hour * 60 + dt.minute + n
    IN [AddDays(dt, total \div 1440) EXCEPT
            !.hour = (total % 1440) \div 60, !.minute = total % 60]

\* the length of an event, in minutes
EventMinutes == 90

\* .replace(tzinfo=ZoneInfo("America/Toronto")): the fields are kept
ReplaceTz(dt) == [dt EXCEPT !.tzinfo = "America/Toronto"]

\* referees.get(referee_id, "Unknown")
RefereeOf(referees, referee_id) ==
    IF \E i \in 1..Len(referees) : referees[i].id = referee_id
    THEN referees[CHOOSE i \in 1..Len(referees) : referees[i].id = referee_id].row
    ELSE <<"Unknown">>

\* The event create_calendar builds for a row with a date: dt is the parsed
\* start, found_address the pair find_address_for_terrain returned and
\* referee_name the result of the lookup of the referee.  The formatted texts
\* are the tuples of their parts.
MakeEvent(m, dt, found_address, referee_name, id) ==
    [uid |-> id,
     name |-> <<"Ligue: ", m.Ligue, " - Calibre: ", m.Calibre>>,
     begin |-> ReplaceTz(dt),
     end |-> PlusMinutes(ReplaceTz(dt), EventMinutes),
     location |-> <<m.Terrain, found_address[1], found_address[2]>>,
     description |->
        [Ligue |-> m.Ligue, Calibre |-> m.Calibre, Jour |-> m.Jour, Date |-> m.Date,
         Heure |-> m.Heure, Equipes |-> m.Equipes, Autre_arbitre |-> referee_name,
         Ecole |-> m.Terrain, Addresse |-> found_address[1],
         Google_Maps_Link |-> found_address[2]]]

(***************************************************************************)
(* The idle values of the variables an operation does not use.             *)
(***************************************************************************)
IdleN == text = <<>> /\ once = <<>> /\ twice = <<>> /\ npc = "idle"
IdleR == terrain = <<>> /\ addresses_dict = <<>> /\ found = <<>> /\ rpc = "idle"
IdleE ==
    /\ column_mapping = <<>> /\ row = <<>> /\ outcome = "idle" /\ extracted = <<>>
    /\ src = <<>> /\ nrows = 0 /\ csv_rows = <<>> /\ epc = "idle"
    /\ row_cols = <<>> /\ row_fields = <<>> /\ row_radios = <<>> /\ row_checkboxes = <<>>
IdleC == calendar = {} /\ matches = <<>> /\ uid = 0 /\ cpc = "idle"
IdleO ==
    /\ arg_a = <<>> /\ arg_b = <<>> /\ score_ab = <<>> /\ score_ba = <<>> /\ score_aa = <<>>
    /\ opc = "idle"

(***************************************************************************)
(* normalize applied to a text, and then to its own result.                *)
(***************************************************************************)
MaxLen == 4

NAlphabet == {"s", "t", "e", "(", ")", " ", "."}

T_LeMay == <<"L","e","-","M","a","y">>
T_SemStJean == <<"S","ea","m","."," ","S","t","-","J","e","a","n">>
T_Ecole == <<"EA","c","o","l","e"," ","S","e","c","o","n","d","a","i","r","e"," ",
             "S","a","i","n","t","-","J","e","a","n">>
T_Casault == <<"L",".","-","J","."," ","C","a","s","a","u","l","t">>
T_Cfp == <<"C","F","P"," ","l","a"," ","C","o","l","l",".">>

Texts ==
    UNION {[1..n -> NAlphabet] : n \in 0..MaxLen}
        \cup {T_LeMay, T_SemStJean, T_Ecole, T_Casault, T_Cfp}

InitN ==
    /\ text \in Texts /\ once = <<>> /\ twice = <<>> /\ npc = "start"
    /\ IdleR /\ IdleE /\ IdleC /\ IdleO

NormalizeOnce ==
    /\ npc = "start"
    /\ once' = normalize(text)
    /\ npc' = "once"
    /\ UNCHANGED <<text, twice, varsR, varsE, varsC, varsO>>

NormalizeTwice ==
    /\ npc = "once"
    /\ twice' = normalize(once)
    /\ npc' = "twice"
    /\ UNCHANGED <<text, once, varsR, varsE, varsC, varsO>>

NextN == NormalizeOnce \/ NormalizeTwice

SpecNormalize == InitN /\ [][NextN]_vars

(***************************************************************************)
(* find_address_for_terrain called on a venue text and an address mapping. *)
(***************************************************************************)
MaxCandidates == 2

Q_abcd == <<"a","b"," ","c","d">>
Q_paren == <<"(","x",")">>
Q_twenty == <<"a"," ","b"," ","c"," ","d"," ","e"," ","f"," ","g"," ","h"," ","i"," ","j"," ",
              "k"," ","l"," ","m"," ","n"," ","o"," ","p"," ","q"," ","r"," ","s"," ","t">>
N_cdab == <<"c","d"," ","a","b">>
N_abef == <<"a","b"," ","e","f">>
N_ghcd == <<"g","h"," ","c","d">>
N_abefgh == <<"a","b"," ","e","f"," ","g","h">>
N_b == <<"b">>
N_nine == <<"a"," ","b"," ","c"," ","d"," ","e"," ","f"," ","g"," ","h"," ","i"," ","0"," ",
            "1"," ","2"," ","3"," ","4"," ","5"," ","6"," ","7"," ","8"," ","9"," ","u">>

Queries == {<<>>, Q_abcd, T_SemStJean, Q_paren, Q_twenty}

SchoolNames == <<N_cdab, N_abef, N_ghcd, N_abefgh, N_b, T_Ecole, Q_paren, N_nine>>

\* The row load_addresses builds for the i-th school name
AddressRow(i) ==
    [school_name |-> SchoolNames[i],
     row |-> [address |-> <<"address", i>>, map_link |-> <<"map_link", i>>]]

\* Mappings keep their keys distinct and iterate in insertion order
KeyOrders(n) ==
    {g \in [1..n -> 1..Len(SchoolNames)] : \A a, b \in 1..n : a # b => g[a] # g[b]}

Dicts ==
    UNION {{[k \in 1..n |-> AddressRow(f[k])] : f \in KeyOrders(n)} : n \in 0..MaxCandidates}

InitR ==
    /\ terrain \in Queries /\ addresses_dict \in Dicts /\ found = <<>> /\ rpc = "start"
    /\ IdleN /\ IdleE /\ IdleC /\ IdleO

Resolve ==
    /\ rpc = "start"
    /\ found' = find_address_for_terrain(terrain, addresses_dict)
    /\ rpc' = "done"
    /\ UNCHANGED <<terrain, addresses_dict, varsN, varsE, varsC, varsO>>

NextR == Resolve

SpecResolve == InitR /\ [][NextR]_vars

(***************************************************************************)
(* overlap_score called on two texts, in both orders, and on the first     *)
(* text and itself.                                                        *)
(***************************************************************************)
MaxScoreLen == 3

ScoreAlphabet == {"a", "b", " "}

ScoreTexts == UNION {[1..n -> ScoreAlphabet] : n \in 0..MaxScoreLen}

InitO ==
    /\ arg_a \in ScoreTexts /\ arg_b \in ScoreTexts
    /\ score_ab = <<>> /\ score_ba = <<>> /\ score_aa = <<>> /\ opc = "start"
    /\ IdleN /\ IdleR /\ IdleE /\ IdleC

Score ==
    /\ opc = "start"
    /\ score_ab' = overlap_score(arg_a, arg_b)
    /\ score_ba' = overlap_score(arg_b, arg_a)
    /\ score_aa' = overlap_score(arg_a, arg_a)
    /\ opc' = "done"
    /\ UNCHANGED <<arg_a, arg_b, varsN, varsR, varsE, varsC>>

NextO == Score

SpecOverlap == InitO /\ [][NextO]_vars

(***************************************************************************)
(* load_html run on a table, one row at a time.                            *)
(***************************************************************************)
MaxRows == 2

NameAccepted == <<"i","s","g","a","m","e","a","c","c","e","p","t","e","d","[","7","]">>
NameDone == <<"i","s","g","a","m","e","d","o","n","e","[","7","]">>
NameDoneAlone == <<"i","s","g","a","m","e","d","o","n","e","a","l","o","n","e","[","7","]">>
NameOther == <<"o","t","h","e","r","[","7","]">>

Radio(name, value, checked) ==
    [type |-> "radio", name |-> name, value |-> value, checked |-> checked]
Checkbox(name, checked) ==
    [type |-> "checkbox", name |-> name, value |-> "1", checked |-> checked]

RadioLists == {
    <<>>,
    <<Radio(NameAccepted, "1", TRUE), Radio(NameAccepted, "2", FALSE)>>,
    <<Radio(NameAccepted, "1", FALSE), Radio(NameAccepted, "2", TRUE)>>,
    <<Radio(NameAccepted, "1", FALSE), Radio(NameAccepted, "2", FALSE)>>,
    <<Radio(NameAccepted, "1", TRUE), Radio(NameAccepted, "2", TRUE)>>,
    <<Radio(NameAccepted, "3", TRUE)>>,
    <<Radio(NameOther, "2", TRUE)>>,
    <<Radio(<<>>, NoValue, TRUE)>>}

CheckboxLists == {
    <<>>,
    <<Checkbox(NameDone, TRUE)>>,
    <<Checkbox(NameDone, FALSE)>>,
    <<Checkbox(NameDoneAlone, TRUE)>>,
    <<Checkbox(NameDone, TRUE), Checkbox(NameDoneAlone, FALSE)>>,
    <<Checkbox(NameDoneAlone, FALSE), Checkbox(NameDone, TRUE)>>,
    <<Checkbox(NameDone, FALSE), Checkbox(NameDoneAlone, TRUE)>>,
    <<Checkbox(<<>>, TRUE)>>}

\* the texts of the cells of a row of the assignments page, cells 0 to 11
BaseTexts == <<"7", "Ligue A", "AA", "", "Ven", "2025-11-21", "18:30",
               "A vs B", "Gym", "12", "", "">>

Min(a, b) == IF a <= b THEN a ELSE b

\* A row of n cells: the status texts in cells 10 and 11, the radios in cell 10
\* and the checkboxes in cell 11 (in the last cell of a shorter row), a link in
\* cell 2 when asked for.
MkRow(n, acc, done, radios, checks, link) ==
    [cells |-> [k \in 1..n |->
        [text |-> IF k = 11 THEN acc ELSE IF k = 12 THEN done ELSE BaseTexts[k],
         href |-> IF k = 3 /\ link THEN "http://m" ELSE NoLink,
         inputs |-> (IF k = Min(11, n) THEN radios ELSE <<>>)
                        \o (IF k = Min(12, n) THEN checks ELSE <<>>)]]]

BlankRow == [cells |-> [k \in 1..2 |-> [text |-> "", href |-> NoLink, inputs |-> <<>>]]]

Rows ==
    {MkRow(12, "Accepte", "no", r, c, TRUE) :
        r \in RadioLists,
        c \in {<<>>, <<Checkbox(NameDone, TRUE)>>, <<Checkbox(NameDone, FALSE)>>,
               <<Checkbox(NameDoneAlone, TRUE)>>}}
    \cup {MkRow(12, "Accepte", "no", r, c, TRUE) :
            r \in {<<>>, <<Radio(NameAccepted, "1", TRUE), Radio(NameAccepted, "2", FALSE)>>},
            c \in CheckboxLists}
    \cup {MkRow(12, t[1], t[2], r, c, FALSE) :
            t \in {<<"Accepte", "yes">>, <<"Refuse", "no">>, <<"", "">>},
            r \in {<<>>, <<Radio(NameAccepted, "1", TRUE)>>, <<Radio(NameOther, "2", TRUE)>>},
            c \in {<<>>, <<Checkbox(NameDone, FALSE)>>}}
    \cup {MkRow(1, "", "", r, c, FALSE) :
            r \in {<<>>, <<Radio(NameAccepted, "1", TRUE)>>},
            c \in {<<>>, <<Checkbox(NameDone, FALSE)>>}}
    \cup {MkRow(3, "", "", <<>>, c, l) :
            l \in BOOLEAN, c \in {<<>>, <<Checkbox(NameDone, FALSE)>>}}
    \cup {MkRow(0, "", "", <<>>, <<>>, FALSE), BlankRow}

\* The text of cell 0 names the place of the row in the table, so that a record
\* shows the row it was built from (a row without cells, or with a blank first
\* cell, is left as it is).
RowLabels == <<"row 1", "row 2", "row 3", "row 4">>
Place(r, i) ==
    IF r.cells = <<>> \/ r.cells[1].text = "" THEN r
    ELSE [r EXCEPT !.cells[1].text = RowLabels[i]]

InitE ==
    /\ column_mapping \in {COLUMN_MAP_ASSIGNATIONS, COLUMN_MAP_ADDRESSES, COLUMN_MAP_REFEREE}
    /\ row = [cells |-> <<>>] /\ outcome = "none" /\ extracted = <<>> /\ src = <<>>
    /\ nrows = 0 /\ csv_rows = <<>> /\ epc = "loop"
    /\ row_cols = <<>> /\ row_fields = <<>> /\ row_radios = <<>> /\ row_checkboxes = <<>>
    /\ IdleN /\ IdleR /\ IdleC /\ IdleO

\* the next row of the table becomes the loop variable
NextRow(r) ==
    /\ epc = "loop" /\ nrows < MaxRows
    /\ row' = r
    /\ nrows' = nrows + 1

\* The body of the loop down to the scan for controls, for a row with cells:
\* the fields are extracted, then the radio buttons and the checkboxes are
\* looked for in the row as the extraction left it.
ScanRow(r) ==
    /\ NextRow(r)
    /\ r.cells # <<>>
    /\ row_cols' = ColsAfterBuild(column_mapping, r.cells, 1)
    /\ row_radios' = FindInputs([cells |-> row_cols'], "radio")
    /\ row_checkboxes' = FindInputs([cells |-> row_cols'], "checkbox")

\* if not cols: continue
SkipRow ==
    \E r \in Rows :
        /\ NextRow(Place(r, nrows + 1))
        /\ row'.cells = <<>>
        /\ row_cols' = <<>>
        /\ outcome' = "skipped"
        /\ UNCHANGED <<column_mapping, extracted, src, csv_rows, epc,
                       row_fields, row_radios, row_checkboxes, varsN, varsR, varsC, varsO>>

\* a row without radio button and without checkbox is appended as it is
EmitPlain ==
    \E r \in Rows :
        /\ ScanRow(Place(r, nrows + 1))
        /\ ~HasControls([cells |-> row_cols'])
        /\ row_fields' = BuildRowData(column_mapping, row_cols', 1, <<>>)
        /\ extracted' = Emit(extracted, row_fields')
        /\ src' = Append(src, nrows')
        /\ outcome' = "emitted"
        /\ UNCHANGED <<column_mapping, csv_rows, epc, varsN, varsR, varsC, varsO>>

\* a row with controls that passes the filter is appended
DecodeEmit ==
    \E r \in Rows :
        /\ ScanRow(Place(r, nrows + 1))
        /\ HasControls([cells |-> row_cols'])
        /\ row_fields' = Decoded(column_mapping, [cells |-> row_cols'])
        /\ ~FilterRaises(row_fields') /\ FilterPasses(row_fields')
        /\ extracted' = Emit(extracted, row_fields')
        /\ src' = Append(src, nrows')
        /\ outcome' = "emitted"
        /\ UNCHANGED <<column_mapping, csv_rows, epc, varsN, varsR, varsC, varsO>>

\* a row with controls that fails the filter is dropped
DecodeDrop ==
    \E r \in Rows :
        /\ ScanRow(Place(r, nrows + 1))
        /\ HasControls([cells |-> row_cols'])
        /\ row_fields' = Decoded(column_mapping, [cells |-> row_cols'])
        /\ ~FilterRaises(row_fields') /\ ~FilterPasses(row_fields')
        /\ outcome' = "dropped"
        /\ UNCHANGED <<column_mapping, extracted, src, csv_rows, epc, varsN, varsR, varsC, varsO>>

\* a row with controls whose row_data has fewer than 11 values: the filter
\* raises IndexError, which nothing catches, and load_html ends there
DecodeRaise ==
    \E r \in Rows :
        /\ ScanRow(Place(r, nrows + 1))
        /\ HasControls([cells |-> row_cols'])
        /\ row_fields' = Decoded(column_mapping, [cells |-> row_cols'])
        /\ FilterRaises(row_fields')
        /\ outcome' = "raised"
        /\ epc' = "raised"
        /\ UNCHANGED <<column_mapping, extracted, src, csv_rows, varsN, varsR, varsC, varsO>>

\* after the last row, the records are written to the CSV file
WriteCsv ==
    /\ epc = "loop"
    /\ csv_rows' = CsvRows(extracted, column_mapping)
    /\ epc' = "done"
    /\ UNCHANGED <<column_mapping, row, outcome, extracted, src, nrows,
                   row_cols, row_fields, row_radios, row_checkboxes, varsN, varsR, varsC, varsO>>

NextE == SkipRow \/ EmitPlain \/ DecodeEmit \/ DecodeDrop \/ DecodeRaise \/ WriteCsv

SpecExtract == InitE /\ [][NextE]_vars

(***************************************************************************)
(* create_calendar run on the rows of matches.csv, one row at a time.      *)
(***************************************************************************)
MaxMatches == 2

Date3(a, wa, s, b, wb, c, wc) == <<Num(wa, a), Sep(s), Num(wb, b), Sep(s), Num(wc, c)>>
Time2(h, wh, m, wm) == <<Num(wh, h), Sep(":"), Num(wm, m)>>

Dates == {
    <<>>,
    Date3(2025, 4, "-", 11, 2, 21, 2),        \* 2025-11-21
    Date3(21, 2, "/", 11, 2, 2025, 4),        \* 21/11/2025
    Date3(21, 2, "-", 11, 2, 2025, 4),        \* 21-11-2025
    Date3(2025, 4, "/", 1, 1, 5, 1),          \* 2025/1/5
    Date3(21, 2, ".", 11, 2, 2025, 4),        \* 21.11.2025
    Date3(2025, 4, "-", 12, 2, 31, 2),        \* 2025-12-31
    Date3(2024, 4, "-", 2, 2, 28, 2),         \* 2024-02-28
    Date3(2025, 4, "-", 2, 2, 28, 2),         \* 2025-02-28
    Date3(2025, 4, "-", 2, 2, 29, 2),         \* 2025-02-29, no such day
    Date3(2025, 4, "-", 13, 2, 1, 2),         \* 2025-13-01, no such month
    Date3(21, 2, "-", 11, 2, 25, 2),          \* 21-11-25, a year of two digits
    Date3(21, 2, "/", 11, 2, 2025, 4) \o <<Sep("."), Num(2, 0)>>}

Times == {
    <<>>,
    Time2(18, 2, 30, 2),                      \* 18:30
    Time2(8, 1, 5, 2),                        \* 8:05
    Time2(22, 2, 29, 2),                      \* 22:29
    Time2(22, 2, 30, 2),                      \* 22:30
    Time2(23, 2, 0, 2),                       \* 23:00
    Time2(24, 2, 0, 2),                       \* 24:00, no such hour
    <<Num(2, 18), Sep("h"), Num(2, 30)>>,     \* 18h30
    Time2(18, 2, 30, 2) \o <<Sep(":"), Num(2, 0)>>}

\* a row of matches.csv
Match(date, heure, referee_id) ==
    [Ligue |-> "Ligue A", Calibre |-> "AA", Jour |-> "Ven", Date |-> date, Heure |-> heure,
     Equipes |-> "A vs B", Terrain |-> T_SemStJean, Autre_arbitre |-> referee_id]

MatchRows ==
    {Match(d, Time2(18, 2, 30, 2), "12") : d \in Dates}
        \cup {Match(Date3(2025, 4, "-", 11, 2, 21, 2), h, "12") : h \in Times}
        \cup {Match(d, Time2(23, 2, 0, 2), "12") :
                d \in {Date3(2025, 4, "-", 12, 2, 31, 2), Date3(2024, 4, "-", 2, 2, 28, 2),
                       Date3(2025, 4, "-", 2, 2, 28, 2)}}
        \cup {Match(<<>>, <<>>, "12"),
              Match(Date3(2025, 4, "-", 11, 2, 21, 2), Time2(18, 2, 30, 2), "99")}

\* the mappings load_addresses and load_referees return
Addresses == <<AddressRow(6)>>
Referees == <<[id |-> "12", row |-> <<"Tremblay Luc", "418 555 0101", "", "luc@example.org">>]>>

InitC ==
    /\ calendar = {} /\ matches = <<>> /\ uid = 0 /\ cpc = "loop"
    /\ IdleN /\ IdleR /\ IdleE /\ IdleO

\* AddToCalendar keeping one event for a start time
AddToCalendar_OnePerStart(events, event) ==
    IF \E e \in events : e.begin = event.begin THEN events ELSE events \cup {event}

\* calendar.events.add(event): a set of events, equal when their uid is
AddToCalendar(events, event) == events \cup {event}

\* the next row of matches becomes the loop variable
NextMatch(m) ==
    /\ cpc = "loop" /\ Len(matches) < MaxMatches
    /\ matches' = Append(matches, m)

\* a row with a date and a time that parse: an event is added to the calendar
AddEvent ==
    \E m \in MatchRows :
        /\ NextMatch(m)
        /\ m.Date # <<>> /\ m.Heure # <<>>
        /\ parse_datetime(m.Date, m.Heure).ok
        /\ calendar' = AddToCalendar(calendar,
                MakeEvent(m, parse_datetime(m.Date, m.Heure).dt,
                          find_address_for_terrain(m.Terrain, Addresses),
                          RefereeOf(Referees, m.Autre_arbitre), uid + 1))
        /\ uid' = uid + 1
        /\ UNCHANGED <<cpc, varsN, varsR, varsE, varsO>>

\* a row with an empty date or an empty time gives no event
SkipEmpty ==
    \E m \in MatchRows :
        /\ NextMatch(m)
        /\ ~(m.Date # <<>> /\ m.Heure # <<>>)
        /\ UNCHANGED <<calendar, uid, cpc, varsN, varsR, varsE, varsO>>

\* RaiseUnparseable skipping the row instead
RaiseUnparseable_Skips ==
    \E m \in MatchRows :
        /\ NextMatch(m)
        /\ m.Date # <<>> /\ m.Heure # <<>>
        /\ ~parse_datetime(m.Date, m.Heure).ok
        /\ UNCHANGED <<calendar, uid, cpc, varsN, varsR, varsE, varsO>>

\* a row whose date and time match no format: parse_datetime raises
\* ValueError, which create_calendar does not catch
RaiseUnparseable ==
    \E m \in MatchRows :
        /\ NextMatch(m)
        /\ m.Date # <<>> /\ m.Heure # <<>>
        /\ ~parse_datetime(m.Date, m.Heure).ok
        /\ cpc' = "raised"
        /\ UNCHANGED <<calendar, uid, varsN, varsR, varsE, varsO>>

\* return calendar, after the last row
ReturnCalendar ==
    /\ cpc = "loop"
    /\ cpc' = "returned"
    /\ UNCHANGED <<calendar, matches, uid, varsN, varsR, varsE, varsO>>

NextC == AddEvent \/ SkipEmpty \/ RaiseUnparseable \/ ReturnCalendar

SpecCalendar == InitC /\ [][NextC]_vars

(***************************************************************************)
(* Properties of find_address_for_terrain.                                 *)
(***************************************************************************)
\* The substring relation and the overlap score of every candidate, computed
\* from the definitions of the two rules rather than by the scan.
Candidates == 1..Len(addresses_dict)
Relations ==
    LET norm_terrain == normalize(terrain)
    IN [k \in Candidates |->
            LET norm_school == normalize(addresses_dict[k].school_name)
            IN [hit |-> IsSubstring(norm_terrain, norm_school)
                            \/ IsSubstring(norm_school, norm_terrain),
                score |-> overlap_score(norm_terrain, norm_school),
                norm_school |-> norm_school]]

HitsOf(rel) == {k \in DOMAIN rel : rel[k].hit}
FirstHitOf(rel) == CHOOSE k \in HitsOf(rel) : \A j \in HitsOf(rel) : k <= j
\* the first candidate, in iteration order, among those of maximum score
FirstBestOf(rel) ==
    CHOOSE k \in DOMAIN rel :
        /\ \A j \in DOMAIN rel : ~Greater(rel[j].score, rel[k].score)
        /\ \A j \in 1..k - 1 : Greater(rel[k].score, rel[j].score)

\* C3, as stated: whenever some candidate is in a substring relation with the
\* normalized query, the result is the record of the first such candidate in
\* iteration order, whatever the scores of the others.
C3_FirstSubstringHitWins ==
    rpc = "done" =>
        LET rel == Relations
        IN HitsOf(rel) # {} => found = Entry(addresses_dict[FirstHitOf(rel)].row)

\* C3, amended: for a non-empty query text, whenever some candidate is in a
\* substring relation with the normalized query, the result is the record of the
\* first such candidate in iteration order, whatever the scores of the others.
C3_FirstSubstringHitWinsNonEmptyQuery ==
    (rpc = "done" /\ terrain # <<>>) =>
        LET rel == Relations
        IN HitsOf(rel) # {} => found = Entry(addresses_dict[FirstHitOf(rel)].row)

\* C3 witness: a later, score-0 substring hit was returned although an earlier
\* candidate scores above the threshold
C3_Witness ==
    /\ rpc = "done" /\ terrain # <<>> /\ Len(addresses_dict) >= 2
    /\ LET rel == Relations
       IN /\ HitsOf(rel) # {} /\ FirstHitOf(rel) > 1
          /\ Greater(rel[1].score, Threshold)
          /\ rel[FirstHitOf(rel)].score[1] = 0
          /\ found = Entry(addresses_dict[FirstHitOf(rel)].row)

\* C4: with no candidate in a substring relation with the normalized query, the
\* result is the record of the first candidate of maximum overlap score if that
\* maximum is strictly greater than 0.45, and none otherwise (empty mapping and
\* a maximum of exactly 0.45 included).
C4_BestAboveThreshold ==
    rpc = "done" =>
        LET rel == Relations
        IN HitsOf(rel) = {} =>
            IF Candidates # {} /\ Greater(rel[FirstBestOf(rel)].score, Threshold)
            THEN found = Entry(addresses_dict[FirstBestOf(rel)].row)
            ELSE found = <<None, None>>

\* C4 witness: two candidates tie for a maximum above the threshold and the
\* first one was returned
C4_Witness ==
    /\ rpc = "done" /\ Len(addresses_dict) >= 2
    /\ LET rel == Relations
       IN /\ HitsOf(rel) = {}
          /\ rel[1].score = rel[2].score /\ Greater(rel[1].score, Threshold)
          /\ found = Entry(addresses_dict[1].row)

\* C4, second case reached: the maximum is exactly 0.45 and the result is none
C4_AtThreshold ==
    /\ rpc = "done" /\ Candidates # {}
    /\ LET rel == Relations
       IN /\ HitsOf(rel) = {}
          /\ rel[FirstBestOf(rel)].score[1] * 100 = 45 * rel[FirstBestOf(rel)].score[2]
    /\ found = <<None, None>>

\* C17: the empty query text gives none; a non-empty query text that
\* normalizes to the empty text (punctuation only, or a text in parentheses)
\* gives, with a non-empty mapping, the record of the first candidate; and a
\* candidate whose name normalizes to the empty text is returned for every
\* non-empty query text, unless an earlier candidate is in a substring
\* relation with the query.
C17_EmptyNormalizedTexts ==
    rpc = "done" =>
        LET rel == Relations
        IN /\ terrain = <<>> => found = <<None, None>>
           /\ (terrain # <<>> /\ normalize(terrain) = <<>> /\ Candidates # {})
                => found = Entry(addresses_dict[1].row)
           /\ \A k \in Candidates :
                (/\ terrain # <<>>
                 /\ rel[k].norm_school = <<>>
                 /\ \A j \in 1..k - 1 : ~rel[j].hit)
                    => found = Entry(addresses_dict[k].row)

\* C17 witness: the query "(x)" was given the record of the first of two
\* candidates, with which it shares no word
C17_Witness ==
    /\ rpc = "done" /\ terrain = Q_paren /\ Len(addresses_dict) = 2
    /\ LET rel == Relations
       IN rel[1].norm_school # <<>> /\ rel[1].score[1] = 0
    /\ found = Entry(addresses_dict[1].row)

\* C17, third case reached: a candidate named "(x)", the second of the
\* mapping, was returned for the query "ab cd"
C17_EmptyCandidateReturned ==
    /\ rpc = "done" /\ terrain = Q_abcd /\ Len(addresses_dict) = 2
    /\ addresses_dict[2].school_name = Q_paren
    /\ found = Entry(addresses_dict[2].row)

\* the texts "seminaire saint jean", "saint" and "jean"
SeminaireSaintJean ==
    <<"s","e","m","i","n","a","i","r","e"," ","s","a","i","n","t"," ","j","e","a","n">>
Saint == <<"s","a","i","n","t">>
Jean == <<"j","e","a","n">>

\* C13: with the single address record named "Ecole Secondaire Saint-Jean"
\* (E-acute) and the venue "Sem. St-Jean" (e-acute), the result is the address
\* and the map link of that record: the venue normalizes to "seminaire saint
\* jean", the two normalized texts share the words "saint" and "jean", and
\* their overlap score is above the threshold.
C13_SemStJeanResolved ==
    (rpc = "done" /\ terrain = T_SemStJean /\ addresses_dict = <<AddressRow(6)>>) =>
        LET norm_terrain == normalize(terrain)
            norm_school == normalize(addresses_dict[1].school_name)
        IN /\ norm_terrain = SeminaireSaintJean
           /\ {Saint, Jean} \subseteq Split(norm_terrain, 1, <<>>) \cap Split(norm_school, 1, <<>>)
           /\ Greater(overlap_score(norm_terrain, norm_school), Threshold)
           /\ found = <<addresses_dict[1].row.address, addresses_dict[1].row.map_link>>

\* C13 witness: that call returned the record, on its score of 2/4 and not
\* on a substring
C13_Witness ==
    /\ rpc = "done" /\ terrain = T_SemStJean /\ addresses_dict = <<AddressRow(6)>>
    /\ LET rel == Relations
       IN ~rel[1].hit /\ rel[1].score = <<2, 4>>
    /\ found = <<<<"address", 6>>, <<"map_link", 6>>>>

(***************************************************************************)
(* Properties of overlap_score.                                            *)
(***************************************************************************)
\* the words of a text: its maximal runs of characters that are not blank
TokensOf(s) ==
    {SubSeq(s, p[1], p[2]) :
        p \in {q \in (1..Len(s)) \X (1..Len(s)) :
                /\ q[1] <= q[2]
                /\ \A k \in q[1]..q[2] : ~IsSpace(s[k])
                /\ q[1] = 1 \/ IsSpace(s[q[1] - 1])
                /\ q[2] = Len(s) \/ IsSpace(s[q[2] + 1])}}

\* equality of two fractions
SameScore(x, y) == x[1] * y[2] = y[1] * x[2]

\* C12: overlap_score takes the SET of the words of each argument; it is 0
\* when one of the sets is empty and the number of common words over the
\* size of the larger set otherwise.  So it lies between 0 and 1, it is 1 for
\* a text with a word and itself, and it is the same in both orders.
C12_OverlapScore ==
    opc = "done" =>
        LET set_a == TokensOf(arg_a)
            set_b == TokensOf(arg_b)
        IN /\ SameScore(score_ab,
                    IF set_a = {} \/ set_b = {} THEN <<0, 1>>
                    ELSE <<Cardinality(set_a \cap set_b),
                           IF Cardinality(set_a) >= Cardinality(set_b) THEN Cardinality(set_a)
                           ELSE Cardinality(set_b)>>)
           /\ score_ab[2] > 0 /\ 0 <= score_ab[1] /\ score_ab[1] <= score_ab[2]
           /\ set_a # {} => score_aa[1] = score_aa[2] /\ score_aa[2] > 0
           /\ set_a = {} => score_aa[1] = 0
           /\ SameScore(score_ab, score_ba)

\* C12 witness: a word written twice counts once, "a a" against "a" scores 1
C12_Witness ==
    /\ opc = "done" /\ arg_a = <<"a", " ", "a">> /\ arg_b = <<"a">>
    /\ score_ab = <<1, 1>> /\ score_ba = <<1, 1>>

(***************************************************************************)
(* Properties of normalize.                                                *)
(***************************************************************************)
\* C5: normalize is idempotent: normalize(normalize(x)) = normalize(x) for every x
C5_NormalizeIdempotent == npc = "twice" => twice = once

(***************************************************************************)
(* Properties of load_html.                                                *)
(***************************************************************************)
LastRecord == extracted[Len(extracted)]
\* the radio buttons and checkboxes of a row
ControlsOf(r) == FindInputs(r, "radio") \o FindInputs(r, "checkbox")

\* C1: a row with at least one radio button or checkbox is emitted only if its
\* decoded Accepted field is "Accepte" and its decoded Completed field is "no":
\* no record of a row decoded as Refused, or as Accepted and completed.
C1_ControlRowsFiltered ==
    (outcome = "emitted" /\ ControlsOf(row) # <<>>) =>
        /\ Get(LastRecord, "Accepte/Refuse") = "Accepte"
        /\ Get(LastRecord, "Match fait") = "no"

\* C1 witness: a row with controls was emitted, its status decoded from the
\* controls and not from the text of its cells
C1_Witness ==
    /\ outcome = "emitted" /\ ControlsOf(row) # <<>>
    /\ FindInputs(row, "radio") # <<>> /\ FindInputs(row, "checkbox") # <<>>
    /\ Len(row.cells) = 12
    /\ row.cells[11].text # "Accepte" /\ row.cells[12].text # "no"
    /\ Get(LastRecord, "Accepte/Refuse") = "Accepte"

\* C2: whatever the column mapping, processing a row never raises: a malformed
\* row degrades to empty fields or to a dropped row and the extraction goes on.
C2_NeverRaises == epc # "raised" /\ outcome # "raised"

\* C9: a row without cells produces no record, and a row with cells and
\* without radio button or checkbox is emitted, whatever its field values.
C9_PlainRowsEmitted ==
    nrows > 0 =>
        /\ row.cells = <<>> =>
                outcome = "skipped" /\ (src = <<>> \/ src[Len(src)] # nrows)
        /\ (row.cells # <<>> /\ ControlsOf(row) = <<>>) =>
                /\ outcome = "emitted" /\ src # <<>> /\ src[Len(src)] = nrows
                /\ \A i \in 1..Len(column_mapping) :
                        LET f == column_mapping[i]
                        IN f.idx + 1 <= Len(row.cells) /\ ~IsLinkField(f.name)
                            => Get(LastRecord, f.name) = row.cells[f.idx + 1].text

\* C9 witness: a row of the assignments table without controls, whose status
\* cells read "Refuse" and "no", was emitted
C9_Witness ==
    /\ column_mapping = COLUMN_MAP_ASSIGNATIONS /\ nrows > 0 /\ outcome = "emitted"
    /\ Len(row.cells) = 12 /\ ControlsOf(row) = <<>>
    /\ row.cells[11].text = "Refuse"
    /\ Get(LastRecord, "Accepte/Refuse") = "Refuse"

IsPrefix(a, b) == Len(a) <= Len(b) /\ \A i \in 1..Len(a) : a[i] = b[i]

\* every record stands at the place of its row: src is increasing, and the
\* first field of a record is the text of cell 0 of its row
RecordsInRowOrder ==
    /\ Len(src) = Len(extracted)
    /\ \A k \in 1..Len(src) :
        /\ src[k] \in 1..nrows
        /\ k > 1 => src[k - 1] < src[k]
        /\ extracted[k][1].v \in {RowLabels[src[k]], ""}
    /\ epc = "done" =>
        /\ Len(csv_rows) = Len(extracted)
        /\ \A k \in 1..Len(csv_rows) : csv_rows[k][1] = extracted[k][1].v

\* C10: the records are an order-preserving subsequence of the rows: after any
\* prefix of the rows the records stand in the order of their rows, a row gives
\* at most one record, and no record is moved, duplicated or removed later.
C10_OrderPreserved ==
    /\ []RecordsInRowOrder
    /\ [][/\ IsPrefix(extracted, extracted') /\ IsPrefix(src, src')
          /\ Len(extracted') <= Len(extracted) + 1]_vars

\* C10 witness: the records of the first and of the second row were written, in
\* that order
C10_Witness ==
    /\ epc = "done" /\ Len(csv_rows) = 2
    /\ csv_rows[1][1] = RowLabels[1] /\ csv_rows[2][1] = RowLabels[2]

\* a value that is a text, and not the mark of a missing link or attribute
IsText(v) == v \notin {NoLink, NoValue}

\* C11: every record load_html emits has a text, possibly empty, for every
\* field name of the column mapping, whatever the shape of its row: cells
\* missing, no link, status fields written by the decoding of the controls.
C11_EveryFieldPresent ==
    \A k \in 1..Len(extracted) : \A i \in 1..Len(column_mapping) :
        /\ HasKey(extracted[k], column_mapping[i].name)
        /\ IsText(Get(extracted[k], column_mapping[i].name))

\* C11 witness: a row of three cells without link was emitted under the
\* assignments mapping, with eleven fields, the last of them empty
C11_Witness ==
    /\ column_mapping = COLUMN_MAP_ASSIGNATIONS /\ outcome = "emitted"
    /\ Len(row.cells) = 3 /\ Len(LastRecord) = 11
    /\ Get(LastRecord, "Match fait") = "" /\ Get(LastRecord, "Calibre") = "AA"

\* the column mapping has a field of that name
IsField(col_name) == \E i \in 1..Len(column_mapping) : column_mapping[i].name = col_name

\* the row at hand has cells and controls, and its decoding has run
ControlRowDecoded ==
    /\ outcome \in {"emitted", "dropped", "raised"}
    /\ ControlsOf(row) # <<>>

\* some checkbox of the row, named isgamedone and not isgamedonealone, is checked
DoneChecked(r) ==
    \E i \in 1..Len(FindInputs(r, "checkbox")) :
        LET checkbox == FindInputs(r, "checkbox")[i]
        IN /\ IsSubstring(MarkDone, checkbox.name)
           /\ ~IsSubstring(MarkDoneAlone, checkbox.name)
           /\ checkbox.checked

\* C14: for every row with controls, the field "Match fait" of the table is decoded to
\* "yes" if and only if some checkbox named isgamedone, and not
\* isgamedonealone, is checked, and to "no" otherwise, also when the row has
\* no such checkbox (radio buttons only, or a done-alone checkbox only);
\* the order of the checkboxes does not matter.
C14_CompletedDecoded ==
    (ControlRowDecoded /\ IsField("Match fait")) =>
        Get(row_fields, "Match fait") = IF DoneChecked(row) THEN "yes" ELSE "no"

\* the places, among the radio buttons of the row, of those that are checked,
\* named isgameaccepted and of value 1 or 2
DecidingRadios(r) ==
    {i \in 1..Len(FindInputs(r, "radio")) :
        LET radio == FindInputs(r, "radio")[i]
        IN /\ IsSubstring(MarkAccepted, radio.name)
           /\ radio.checked
           /\ radio.value \in {"1", "2"}}

\* the text of the cell with zero-based index idx, empty without such a cell
CellText(r, idx) == IF idx + 1 <= Len(r.cells) THEN r.cells[idx + 1].text ELSE ""

\* what the claim says the field "Accepte/Refuse" holds after the decoding
ExpectedAccepted(r) ==
    IF DecidingRadios(r) = {} THEN CellText(r, 10)
    ELSE LET last == CHOOSE i \in DecidingRadios(r) : \A j \in DecidingRadios(r) : j <= i
         IN IF FindInputs(r, "radio")[last].value = "1" THEN "Accepte" ELSE "Refuse"

\* C15: the field "Accepte/Refuse" is overwritten, with "Accepte" for the
\* value 1 and "Refuse" for the value 2, only from a radio button that is
\* checked and named isgameaccepted; with no such radio button checked, with
\* another value, or with a checked radio button of another group, it keeps
\* the text of its cell, and that is the value the filter tests.
C15_AcceptedDecoded ==
    (ControlRowDecoded /\ IsField("Accepte/Refuse")) =>
        /\ Get(row_fields, "Accepte/Refuse") = ExpectedAccepted(row)
        /\ outcome = "emitted" <=>
                (ExpectedAccepted(row) = "Accepte" /\ Get(row_fields, "Match fait") = "no")

\* C15 witness: a row whose only control is a checked radio button of another
\* group, of value 2, was emitted on the text "Accepte" of its cell
C15_Witness ==
    /\ ControlRowDecoded /\ column_mapping = COLUMN_MAP_ASSIGNATIONS
    /\ row_radios = <<Radio(NameOther, "2", TRUE)>> /\ row_checkboxes = <<>>
    /\ DecidingRadios(row) = {} /\ CellText(row, 10) = "Accepte"
    /\ outcome = "emitted" /\ Get(LastRecord, "Accepte/Refuse") = "Accepte"

Dated(m) == m.Date # <<>> /\ m.Heure # <<>>
Parseable(m) == parse_datetime(m.Date, m.Heure).ok
\* event e shows the fields of row m in its description
FromRow(e, m) ==
    /\ e.description.Date = m.Date /\ e.description.Heure = m.Heure
    /\ e.description.Autre_arbitre = RefereeOf(Referees, m.Autre_arbitre)

C6_EmptyRowSkipped ==
    /\ cpc = "returned" /\ Len(matches) = 2 /\ Dated(matches[1])
    /\ matches[2].Date # <<>> /\ matches[2].Heure = <<>> /\ Cardinality(calendar) = 1

\* C7: a row whose Date and Heure are both non-empty and match none of the five
\* formats makes the call raise; no calendar is returned, even when earlier
\* rows were turned into events.
C7_UnparseableRaises ==
    \A i \in 1..Len(matches) :
        (Dated(matches[i]) /\ ~Parseable(matches[i]))
            => cpc = "raised" /\ i = Len(matches)

\* C7 witness: the call raised after an earlier row had given an event
C7_Witness == cpc = "raised" /\ calendar # {} /\ Len(matches) = 2

\* the days before year y, and the minutes from the start of year 1 to dt
DaysBeforeYear(y) == 365 * (y - 1) + (y - 1) \div 4 - (y - 1) \div 100 + (y - 1) \div 400
RECURSIVE DaysBeforeMonth(_, _)
DaysBeforeMonth(y, m) == IF m = 1 THEN 0 ELSE DaysBeforeMonth(y, m - 1) + DaysInMonth(y, m - 1)
MinuteNumber(dt) ==
    (DaysBeforeYear(dt.year) + DaysBeforeMonth(dt.year, dt.month) + dt.day - 1) * 1440
        + dt.hour * 60 + dt.minute

\* the start reads the numbers of the Date and Heure texts: the year is the
\* run of four digits, the month stands in the middle
StartReadsTexts(e) ==
    LET d == e.description.Date
        h == e.description.Heure
    IN /\ e.begin.year = IF d[1].w = 4 THEN d[1].v ELSE d[5].v
       /\ e.begin.month = d[3].v
       /\ e.begin.day = IF d[1].w = 4 THEN d[5].v ELSE d[1].v
       /\ e.begin.hour = h[1].v /\ e.begin.minute = h[3].v

\* C8: the start of every event is the wall-clock time of its Date and Heure
\* with the time zone America/Toronto attached, and its end is exactly 90
\* minutes later, also past midnight; 2025-11-21 18:30 gives 18:30 to 20:00.
C8_StartAndEnd ==
    \A e \in calendar :
        /\ StartReadsTexts(e)
        /\ e.begin.tzinfo = "America/Toronto" /\ e.end.tzinfo = "America/Toronto"
        /\ MinuteNumber(e.end) - MinuteNumber(e.begin) = 90
        /\ e.end.day \in 1..DaysInMonth(e.end.year, e.end.month)
        /\ e.end.month \in 1..12 /\ e.end.hour \in 0..23 /\ e.end.minute \in 0..59
        /\ (e.description.Date = Date3(2025, 4, "-", 11, 2, 21, 2)
                /\ e.description.Heure = Time2(18, 2, 30, 2))
            => /\ e.begin = [year |-> 2025, month |-> 11, day |-> 21, hour |-> 18,
                             minute |-> 30, tzinfo |-> "America/Toronto"]
               /\ e.end = [year |-> 2025, month |-> 11, day |-> 21, hour |-> 20,
                           minute |-> 0, tzinfo |-> "America/Toronto"]

\* C8 witness: an event that starts on 2025-12-31 and ends in 2026
C8_Witness ==
    \E e \in calendar :
        /\ e.begin.year = 2025 /\ e.begin.month = 12 /\ e.begin.day = 31
        /\ e.end.year = 2026 /\ e.end.month = 1 /\ e.end.day = 1

====
